---- MODULE Spec2Model ----
(***************************************************************************)
(* WhatsApp Flows data-exchange endpoint: the crypto envelope codec, the   *)
(* signature validator, the response builder and the request dispatcher    *)
(* of src/flows/endpoint/express.ts.                                       *)
(*                                                                         *)
(* Cryptography is modelled symbolically: a ciphertext is a term that      *)
(* records the key, the IV and the plaintext it was made from, and a       *)
(* decryption recovers the plaintext only under the same key and IV.       *)
(* Optional values (undefined in the source) are sequences of length 0 or  *)
(* 1: <<>> is undefined, <<v>> is the value v.                             *)
(***************************************************************************)
EXTENDS Integers, Sequences, FiniteSets, TLC

(* ------------------------------ bounds -------------------------------- *)

\* number of request slots of the dispatcher
NumReqs == 2
\* number of operations applied to one builder in BuilderSpec
MaxOps == 3
\* number of characters of a hex digest (64 in the program)
HexLen == 2

Reqs == 1..NumReqs

(* ------------------------- JavaScript values -------------------------- *)

\* the empty object {}
EmptyMap == [k \in {} |-> ""]

\* object spread {...a, ...b}: the keys of b win
Spread(a, b) ==
  [k \in (DOMAIN a) \cup (DOMAIN b) |-> IF k \in DOMAIN b THEN b[k] ELSE a[k]]

\* JavaScript truthiness of a scalar ("false" and "" stand for false and '')
Truthy(v) == v \notin {"false", ""}

\* a data object: flat holds its scalar-valued keys, emr holds the params
\* object under its extension_message_response key when that key is present
DataObj(flat, emr) == [flat |-> flat, emr |-> emr]

EmptyData == DataObj(EmptyMap, <<>>)

(* --------------------- endpoint/types.ts: builder --------------------- *)

\* const HEALTH_CHECK_RESPONSE = { data: { status: 'active' } }
HEALTH_CHECK_RESPONSE == [data |-> DataObj([status |-> "active"], <<>>)]

\* const ERROR_ACK_RESPONSE = { data: { acknowledged: true } }
ERROR_ACK_RESPONSE == [data |-> DataObj([acknowledged |-> "true"], <<>>)]

\* new FlowResponseBuilder(flowToken): responseData = { screen: '', data: {} }.
\* heap holds every payload object the builder has allocated, cur is the
\* reference held in this.responseData; objs holds the data objects, a
\* payload's data field being a reference into objs.
NewFlowResponseBuilder(flowToken) ==
  [flowToken |-> flowToken,
   heap |-> << [screen |-> "", data |-> 1] >>,
   objs |-> << EmptyData >>,
   cur |-> 1]

\* goToScreen with the previous data kept under the new one
goToScreen_Merge(b, screenId, data) ==
  LET old == b.objs[b.heap[b.cur].data]
      d == IF data = <<>> THEN old
           ELSE DataObj(Spread(old.flat, data[1]), old.emr)
  IN [b EXCEPT !.objs = Append(@, d),
               !.heap = Append(@, [screen |-> screenId, data |-> Len(b.objs) + 1]),
               !.cur = Len(b.heap) + 1]

\* goToScreen(screenId, data?): this.responseData = { screen, data: data ?? {} }.
\* The data object of the caller is stored as it is, not copied.
goToScreen(b, screenId, data) ==
  LET d == IF data = <<>> THEN EmptyData ELSE DataObj(data[1], <<>>)
  IN [b EXCEPT !.objs = Append(@, d),
               !.heap = Append(@, [screen |-> screenId, data |-> Len(b.objs) + 1]),
               !.cur = Len(b.heap) + 1]

\* close(params?): screen 'SUCCESS',
\* data.extension_message_response.params = { flow_token, ...params }
close(b, params) ==
  LET p == Spread([flow_token |-> b.flowToken],
                  IF params = <<>> THEN EmptyMap ELSE params[1])
  IN [b EXCEPT !.objs = Append(@, DataObj(EmptyMap, <<p>>)),
               !.heap = Append(@, [screen |-> "SUCCESS", data |-> Len(b.objs) + 1]),
               !.cur = Len(b.heap) + 1]

\* withError writing error_message into the current data object itself
withError_InPlace(b, errorMessage) ==
  [b EXCEPT !.objs[b.heap[b.cur].data].flat =
              Spread(@, [error_message |-> errorMessage])]

\* withError(m): this.responseData.data = { ...this.responseData.data,
\* error_message: m }: a new data object, assigned into the current payload
\* object
withError(b, errorMessage) ==
  LET old == b.objs[b.heap[b.cur].data]
      d == [old EXCEPT !.flat = Spread(@, [error_message |-> errorMessage])]
  IN [b EXCEPT !.objs = Append(@, d),
               !.heap[b.cur].data = Len(b.objs) + 1]

\* build(): returns this.responseData, a reference to the current payload
build(b) == b.cur

\* the payload object a reference denotes, as it is now
Deref(b, ref) == [screen |-> b.heap[ref].screen, data |-> b.objs[b.heap[ref].data]]

(* ------------------------ crypto/encryption.ts ------------------------ *)

\* const AUTH_TAG_LENGTH = 16
AUTH_TAG_LENGTH == 16

\* base64: toString('base64') wraps bytes, Buffer.from(s, 'base64') unwraps
B64(bytes) == [b64 |-> bytes]
FromB64(s) == s.b64

\* a text is the JSON value it denotes (json = <<>>: not JSON at all) and
\* its formatting; JSON.stringify writes the compact formatting
JSONstringify(v) == [json |-> <<v>>, fmt |-> "compact"]
NotJson == [json |-> <<>>, fmt |-> "compact"]
\* the empty string, the plaintext of an empty ciphertext body
EmptyText == [json |-> <<>>, fmt |-> "empty"]
JSONparseOk(text) == text.json # <<>>
JSONparse(text) == text.json[1]

\* RSA-OAEP: a key encrypted for public key pub opens with private key pub
publicEncrypt(pub, key) == [rsa |-> pub, key |-> key]
privateDecryptOk(priv, c) == c.rsa = priv
privateDecrypt(priv, c) == c.key

\* AES-128-GCM: ciphertext body and authentication tag (n = bytes of tag)
GcmBody(k, v, p) == [k |-> k, v |-> v, p |-> p]
GcmTag(k, v, body) == [k |-> k, v |-> v, c |-> body, n |-> AUTH_TAG_LENGTH]

\* cipher.update/final/getAuthTag: body followed by the 16-byte tag
GcmEncrypt(k, v, p) ==
  [body |-> GcmBody(k, v, p), tag |-> GcmTag(k, v, GcmBody(k, v, p))]

\* the tag lengths decipher.setAuthTag accepts for GCM
GcmTagLengths == {4, 8, 12, 13, 14, 15, 16}

\* the decipher with no check of the authentication tag
GcmDecryptOk_NoTag(k, v, data) ==
  /\ data.body.k = k
  /\ data.body.v = v

\* decipher.setAuthTag/update/final: succeeds iff the tag has an accepted
\* length and is the (truncated) tag of the body under this key and IV
GcmDecryptOk(k, v, data) ==
  /\ data.tag.n \in GcmTagLengths
  /\ data.tag = [GcmTag(k, v, data.body) EXCEPT !.n = data.tag.n]
  /\ data.body.k = k
  /\ data.body.v = v
GcmDecrypt(k, v, data) == data.body.p

\* the values of a byte
Bytes == 0..255

\* bit i of byte a
Bit(a, i) == (a \div (2 ^ i)) % 2

\* a | b on bytes
Xor8_Or(a, b) ==
  LET bit(i) == IF Bit(a, i) + Bit(b, i) > 0 THEN 1 ELSE 0
  IN bit(0) + 2 * bit(1) + 4 * bit(2) + 8 * bit(3)
     + 16 * bit(4) + 32 * bit(5) + 64 * bit(6) + 128 * bit(7)

\* a ^ b on bytes
Xor8(a, b) ==
  LET bit(i) == (Bit(a, i) + Bit(b, i)) % 2
  IN bit(0) + 2 * bit(1) + 4 * bit(2) + 8 * bit(3)
     + 16 * bit(4) + 32 * bit(5) + 64 * bit(6) + 128 * bit(7)

\* Buffer.alloc(n): n zero bytes
BufferAlloc(n) == [i \in 1..n |-> 0]

\* for (let i = 0; i < iv.length; i++) flippedIv[i] = iv[i] ^ 0xff, from
\* index i on; m holds the two buffers iv and flippedIv
RECURSIVE FlipLoop(_, _)
FlipLoop(m, i) ==
  IF i > Len(m.iv) THEN m
  ELSE FlipLoop([m EXCEPT !.flippedIv[i] = Xor8(m.iv[i], 255)], i + 1)

\* IV flipped without the XOR (the request IV reused)
FlipIv_Same(iv) == iv

\* the flippedIv buffer of encryptResponse after the loop
FlipIv(iv) == FlipLoop([iv |-> iv, flippedIv |-> BufferAlloc(Len(iv))], 1).flippedIv

\* the caller's iv buffer after encryptResponse
IvAfterFlip(iv) == FlipLoop([iv |-> iv, flippedIv |-> BufferAlloc(Len(iv))], 1).iv

\* the result of a throwing decryptRequest
DecryptThrows(e) ==
  [ok |-> FALSE, decryptedData |-> <<>>, aesKey |-> 0, iv |-> <<>>, err |-> e]

\* the errors the calls of decryptRequest raise: Buffer.from(undefined),
\* privateDecrypt, setAuthTag, decipher.final and JSON.parse
ErrArgType == "TypeError [ERR_INVALID_ARG_TYPE]: The first argument must be of type string"
ErrOaep == "Error: error:02000079:rsa routines::oaep decoding error"
ErrTagLength == "TypeError [ERR_CRYPTO_INVALID_AUTH_TAG]: Invalid authentication tag length"
ErrAuth == "Error: Unsupported state or unable to authenticate data"
ErrJson == "SyntaxError: Unexpected token in JSON"
DecryptErrors == {ErrArgType, ErrOaep, ErrTagLength, ErrAuth, ErrJson}

\* the error of setAuthTag or final on data that does not decrypt
GcmError(data) == IF data.tag.n \notin GcmTagLengths THEN ErrTagLength ELSE ErrAuth

\* decryptRequest returning the decrypted text without JSON.parse
decryptRequest_RawText(encryptedRequest, privateKeyPem) ==
  IF \/ encryptedRequest.encrypted_flow_data = <<>>
     \/ encryptedRequest.initial_vector = <<>>
     \/ encryptedRequest.encrypted_aes_key = <<>>
  THEN DecryptThrows(ErrArgType)
  ELSE
    LET flowData == FromB64(encryptedRequest.encrypted_flow_data[1])
        iv == FromB64(encryptedRequest.initial_vector[1])
        encryptedKey == FromB64(encryptedRequest.encrypted_aes_key[1])
    IN IF ~privateDecryptOk(privateKeyPem, encryptedKey) THEN DecryptThrows(ErrOaep)
       ELSE
         LET aesKey == privateDecrypt(privateKeyPem, encryptedKey)
         IN IF ~GcmDecryptOk(aesKey, iv, flowData) THEN DecryptThrows(GcmError(flowData))
            ELSE [ok |-> TRUE,
                  decryptedData |-> <<GcmDecrypt(aesKey, iv, flowData)>>,
                  aesKey |-> aesKey,
                  iv |-> iv,
                  err |-> ""]

\* decryptRequest(encryptedRequest, privateKeyPem)
decryptRequest(encryptedRequest, privateKeyPem) ==
  IF \/ encryptedRequest.encrypted_flow_data = <<>>
     \/ encryptedRequest.initial_vector = <<>>
     \/ encryptedRequest.encrypted_aes_key = <<>>
  THEN DecryptThrows(ErrArgType)
  ELSE
    LET flowData == FromB64(encryptedRequest.encrypted_flow_data[1])
        iv == FromB64(encryptedRequest.initial_vector[1])
        encryptedKey == FromB64(encryptedRequest.encrypted_aes_key[1])
    IN IF ~privateDecryptOk(privateKeyPem, encryptedKey) THEN DecryptThrows(ErrOaep)
       ELSE
         LET aesKey == privateDecrypt(privateKeyPem, encryptedKey)
         IN IF ~GcmDecryptOk(aesKey, iv, flowData) THEN DecryptThrows(GcmError(flowData))
            ELSE
              LET decrypted == GcmDecrypt(aesKey, iv, flowData)
              IN IF ~JSONparseOk(decrypted) THEN DecryptThrows(ErrJson)
                 ELSE [ok |-> TRUE,
                       decryptedData |-> <<JSONparse(decrypted)>>,
                       aesKey |-> aesKey,
                       iv |-> iv,
                       err |-> ""]

\* encryptResponse without cipher.getAuthTag(): the 16 bytes read as the
\* tag are no tag under any key
encryptResponse_NoAuthTag(response, aesKey, iv) ==
  LET flippedIv == FlipIv(iv)
      c == GcmEncrypt(aesKey, flippedIv, JSONstringify(response))
  IN B64([c EXCEPT !.tag.k = 0])

\* encryptResponse(response, aesKey, iv)
encryptResponse(response, aesKey, iv) ==
  LET flippedIv == FlipIv(iv)
  IN B64(GcmEncrypt(aesKey, flippedIv, JSONstringify(response)))

\* one character of a hex digest: the i-th character of the HMAC-SHA256 of
\* payload p under secret s, upper-cased or not
HexChar(s, p, i) == [s |-> s, p |-> p, i |-> i, up |-> FALSE]

\* createHmac('sha256', appSecret).update(payload).digest('hex')
HmacHex(appSecret, payload) == [i \in 1..HexLen |-> HexChar(appSecret, payload, i)]

\* a header string: its first 7 characters (or fewer) and the rest
Str(prefix, rest) == [prefix |-> prefix, rest |-> rest]

\* crypto.timingSafeEqual(a, b): throws a RangeError on different lengths
timingSafeEqualThrows(a, b) == Len(a) # Len(b)
\* a comparison that ignores the case of the hex letters
timingSafeEqual_IgnoreCase(a, b) ==
  [i \in DOMAIN a |-> [a[i] EXCEPT !.up = FALSE]] =
  [i \in DOMAIN b |-> [b[i] EXCEPT !.up = FALSE]]

\* crypto.timingSafeEqual(a, b) on buffers of one length
timingSafeEqual(a, b) == a = b

\* validateSignature(payload, signature, appSecret); signature is <<>> for
\* undefined; the result is "true", "false" or "throws"
validateSignature(payload, signature, appSecret) ==
  IF signature = <<>> \/ signature[1] = Str("", <<>>)
     \/ signature[1].prefix # "sha256="
  THEN "false"
  ELSE
    LET expectedSignature == signature[1].rest
        computedSignature == HmacHex(appSecret, payload)
    IN IF timingSafeEqualThrows(expectedSignature, computedSignature)
       THEN "throws"
       ELSE IF timingSafeEqual(expectedSignature, computedSignature)
            THEN "true" ELSE "false"

(* -------------------- tests: the platform's side ---------------------- *)

\* encryptRequest of the tests: the platform's envelope of request data
encryptRequest(data, publicKeyPem, aesKey, iv) ==
  [encrypted_flow_data |-> <<B64(GcmEncrypt(aesKey, iv, JSONstringify(data)))>>,
   encrypted_aes_key |-> <<B64(publicEncrypt(publicKeyPem, aesKey))>>,
   initial_vector |-> <<B64(iv)>>]

\* decryptResponse of the tests: <<payload>>, or <<>> when it throws
decryptResponse(encryptedResponse, aesKey, iv) ==
  LET encrypted == FromB64(encryptedResponse)
      flippedIv == [i \in 1..Len(iv) |-> Xor8(iv[i], 255)]
  IN IF GcmDecryptOk(aesKey, flippedIv, encrypted)
        /\ JSONparseOk(GcmDecrypt(aesKey, flippedIv, encrypted))
     THEN <<JSONparse(GcmDecrypt(aesKey, flippedIv, encrypted))>>
     ELSE <<>>

\* computeSignature of the tests: 'sha256=' + hex HMAC
computeSignature(payload, secret) == Str("sha256=", HmacHex(secret, payload))

(* ------------------- endpoint/types.ts: request view ------------------ *)

\* createFlowRequest(decrypted); respond() is modelled by respond(view)
createFlowRequest(decrypted) ==
  [version |-> decrypted.version,
   action |-> decrypted.action,
   screen |-> decrypted.screen,
   data |-> decrypted.data,
   flowToken |-> decrypted.flow_token,
   flowTokenSignature |-> decrypted.flow_token_signature]

\* respond() { return new FlowResponseBuilder(this.flowToken); }
respond(view) == NewFlowResponseBuilder(view.flowToken)

(* ----------------------------- inputs --------------------------------- *)

\* builder calls a handler (or a test) makes
OpGoToScreen(s, d) == [op |-> "goToScreen", screen |-> s, arg |-> d, msg |-> ""]
OpClose(p) == [op |-> "close", screen |-> "", arg |-> p, msg |-> ""]
OpWithError(m) == [op |-> "withError", screen |-> "", arg |-> <<>>, msg |-> m]
OpBuild == [op |-> "build", screen |-> "", arg |-> <<>>, msg |-> ""]

ScreenIds == {"WELCOME", "S1"}
DataArgs == {<<>>, <<EmptyMap>>, <<[greeting |-> "Hi"]>>,
             <<[error_message |-> "old"]>>}
CloseArgs == {<<>>, <<EmptyMap>>, <<[orderId |-> "X"]>>,
              <<[flow_token |-> "other"]>>}
ErrorMessages == {"bad"}

BuilderOps ==
  {OpGoToScreen(s, d) : s \in ScreenIds, d \in DataArgs}
    \cup {OpClose(p) : p \in CloseArgs}
    \cup {OpWithError(m) : m \in ErrorMessages}

\* one builder call applied to builder b (build leaves the builder alone)
ApplyOp(b, o) ==
  CASE o.op = "goToScreen" -> goToScreen(b, o.screen, o.arg)
    [] o.op = "close" -> close(b, o.arg)
    [] o.op = "withError" -> withError(b, o.msg)
    [] OTHER -> b

RECURSIVE RunScript(_, _)
\* the chained calls of script applied to builder b, in order
RunScript(b, script) ==
  IF script = <<>> THEN b
  ELSE RunScript(ApplyOp(b, Head(script)), Tail(script))

\* what the handler does with respond(): the chains of calls it may make
HandlerScripts ==
  {<<>>,
   <<OpGoToScreen("WELCOME", <<[greeting |-> "Hi"]>>)>>,
   <<OpGoToScreen("S1", <<>>)>>,
   <<OpClose(<<>>)>>,
   <<OpClose(<<[orderId |-> "X"]>>)>>,
   <<OpClose(<<[flow_token |-> "t2"]>>)>>,
   <<OpWithError("bad")>>,
   <<OpGoToScreen("S1", <<EmptyMap>>), OpWithError("bad")>>,
   <<OpClose(<<[orderId |-> "X"]>>), OpWithError("bad")>>}

\* how onRequest settles: it returns a builder, returns something that is
\* no builder, or throws / rejects with an error
HandlerOutcomes ==
  {[kind |-> "builder", script |-> sc, err |-> ""] : sc \in HandlerScripts}
    \cup {[kind |-> "nonbuilder", script |-> <<>>, err |-> ""]}
    \cup {[kind |-> "throws", script |-> <<>>, err |-> e] :
            e \in {"Handler error", "Sensitive internal error details"}}

\* platform sessions: the AES key, IV and flow token of a request
Sessions ==
  {[aesKey |-> 1, iv |-> <<0, 255>>, flow_token |-> "t1"],
   [aesKey |-> 2, iv |-> <<18, 52>>, flow_token |-> "t2"]}

Actions == {"INIT", "BACK", "data_exchange", "ping"}

\* the decrypted JSON values: request objects (data may be missing) and null
RequestData == {<<>>, <<EmptyMap>>, <<[error |-> "true"]>>, <<[error |-> "false"]>>}

DecryptedFlowRequest(action, screen, data, token) ==
  [isNull |-> FALSE, version |-> "3.0", action |-> action, screen |-> screen,
   data |-> data, flow_token |-> token, flow_token_signature |-> <<>>]

JsonNull ==
  [isNull |-> TRUE, version |-> "", action |-> "", screen |-> <<>>,
   data |-> <<>>, flow_token |-> "", flow_token_signature |-> <<>>]

\* the server's key pair is pair 1; pair 2 is another key pair
ServerKey == "server-key"
OtherKey == "other-key"

\* envelopes the platform builds for the server's public key
GoodEnvelopes ==
  {encryptRequest(DecryptedFlowRequest(a, sc, d, s.flow_token),
                  ServerKey, s.aesKey, s.iv) :
     a \in Actions, sc \in {<<>>, <<"S1">>}, d \in RequestData, s \in Sessions}

\* envelopes that are broken in one way each
BadEnvelopes ==
  LET s == CHOOSE x \in Sessions : x.flow_token = "t1"
      rq == DecryptedFlowRequest("INIT", <<>>, <<EmptyMap>>, s.flow_token)
      good == encryptRequest(rq, ServerKey, s.aesKey, s.iv)
      other == GcmEncrypt(s.aesKey, s.iv, JSONstringify(JsonNull))
      data == FromB64(good.encrypted_flow_data[1])
  IN {[good EXCEPT !.encrypted_flow_data = <<>>],
      [good EXCEPT !.encrypted_aes_key = <<>>],
      [good EXCEPT !.initial_vector = <<>>],
      \* the AES key was encrypted for another key pair
      encryptRequest(rq, OtherKey, s.aesKey, s.iv),
      \* ciphertext body altered, tag kept
      [good EXCEPT !.encrypted_flow_data = <<B64([data EXCEPT !.body = other.body])>>],
      \* tag altered, body kept
      [good EXCEPT !.encrypted_flow_data = <<B64([data EXCEPT !.tag = other.tag])>>],
      \* fewer than 16 bytes of flow data: no body, and a tag of 12 bytes
      [good EXCEPT !.encrypted_flow_data =
         <<B64([GcmEncrypt(s.aesKey, s.iv, EmptyText) EXCEPT !.tag.n = 12])>>],
      \* IV altered
      [good EXCEPT !.initial_vector = <<B64(<<7, 7>>)>>],
      \* the plaintext is not JSON
      [good EXCEPT !.encrypted_flow_data = <<B64(GcmEncrypt(s.aesKey, s.iv, NotJson))>>]}

\* an authentic envelope whose plaintext is the JSON value null
NullEnvelopes ==
  {encryptRequest(JsonNull, ServerKey, s.aesKey, s.iv) : s \in Sessions}

Envelopes == GoodEnvelopes \cup BadEnvelopes \cup NullEnvelopes

\* the bytes of the HTTP body: the JSON text of an envelope, in one of two
\* formattings
RawBodies == {[json |-> <<e>>, fmt |-> f] : e \in Envelopes, f \in {"compact", "spaced"}}

AppSecrets == {"s1"}

\* x-hub-signature-256 headers sent along with body raw
Headers(raw) ==
  LET sig == computeSignature(raw, "s1")
      resig == computeSignature(JSONstringify(JSONparse(raw)), "s1")
  IN {<<>>,
      <<Str("", <<>>)>>,
      <<Str("", sig.rest)>>,
      <<sig>>,
      <<resig>>,
      <<computeSignature(raw, "wrong-secret")>>,
      <<Str("sha256=", SubSeq(sig.rest, 1, HexLen - 1))>>,
      <<Str("sha256=", resig.rest \o <<resig.rest[1]>>)>>,
      <<Str("sha256=", [i \in 1..HexLen |-> [resig.rest[i] EXCEPT !.up = TRUE]])>>}

\* FlowEndpointOptions: privateKey, appSecret?, onError?, acknowledgeErrors?
Options ==
  [privateKey : {ServerKey},
   appSecret : {<<>>, <<"">>} \cup {<<s>> : s \in AppSecrets},
   onError : BOOLEAN,
   acknowledgeErrors : {<<>>, <<TRUE>>, <<FALSE>>}]

(* ------------------------------ state --------------------------------- *)

VARIABLES
  options,  \* the FlowEndpointOptions the endpoint was created with
  pc,       \* pc[r]: where the POST handler of request r stands
  wire,     \* wire[r]: <<[header, raw]>>, the HTTP request as received
  dec,      \* dec[r]: <<decryptionResult>> once decryptRequest returned
  flowRequest, \* flowRequest[r]: the local flowRequest, <<>> while undefined
  settled,  \* settled[r]: <<outcome>> once the awaited onRequest settled
  error,    \* error[r]: the error caught by the outer catch, "" if none
  replies,  \* replies[r]: the responses sent on res, in order
  calls,    \* calls[r]: the calls made for r, in order
  bld,      \* a FlowResponseBuilder under test
  ops,      \* the calls made on bld, in order
  snaps,    \* the references build() returned for bld, in order
  passed,   \* the data objects handed to bld.goToScreen: [ref, was]
  input,    \* <<arguments>> of a codec or validator call on its own
  output    \* <<result>> of that call, <<>> before it has returned

disp == <<options, pc, wire, dec, flowRequest, settled, error, replies, calls>>
bvars == <<bld, ops, snaps, passed>>
pure == <<input, output>>
vars == <<options, pc, wire, dec, flowRequest, settled, error, replies, calls,
          bld, ops, snaps, passed, input, output>>

\* a call event: the function called, and for onRequest / onError the
\* request view and the error passed
Call(fn, e, view) == [fn |-> fn, err |-> e, view |-> view]

\* res.status(status).send(body) / res.type(ctype).send(body); ctype is
\* "default" when the handler sets no content type
Response(status, ctype, body) == [status |-> status, ctype |-> ctype, body |-> body]

\* a literal string body, as opposed to a base64 string B64(bytes)
Lit(s) == [lit |-> s]

DispInit ==
  /\ pc = [r \in Reqs |-> "idle"]
  /\ wire = [r \in Reqs |-> <<>>]
  /\ dec = [r \in Reqs |-> <<>>]
  /\ flowRequest = [r \in Reqs |-> <<>>]
  /\ settled = [r \in Reqs |-> <<>>]
  /\ error = [r \in Reqs |-> ""]
  /\ replies = [r \in Reqs |-> <<>>]
  /\ calls = [r \in Reqs |-> <<>>]

\* no builder call made yet on bld
BuilderIdle ==
  /\ ops = <<>>
  /\ snaps = <<>>
  /\ passed = <<>>

\* no codec or validator call on its own
PureIdle ==
  /\ input = <<>>
  /\ output = <<>>

Init ==
  /\ options \in Options
  /\ DispInit
  /\ bld = NewFlowResponseBuilder("t1")
  /\ BuilderIdle
  /\ PureIdle

(* ---------- endpoint/express.ts: createFlowEndpoint, POST '/' --------- *)

\* req.body after express.json()
Body(r) == JSONparse(wire[r][1].raw)

\* A POST arrives; requests are taken one at a time here
Receive(r) ==
  /\ \A q \in Reqs : pc[q] = "idle"
  /\ \E raw \in RawBodies : \E h \in Headers(raw) :
       wire' = [wire EXCEPT ![r] = <<[header |-> h, raw |-> raw]>>]
  /\ pc' = [pc EXCEPT ![r] = "signature"]
  /\ UNCHANGED <<options, dec, flowRequest, settled, error, replies, calls, bvars, pure>>

\* the signature check skipped only when appSecret is undefined
CheckSignature_EmptySecret(r) ==
  /\ pc[r] = "signature"
  /\ IF options.appSecret = <<>>
     THEN /\ pc' = [pc EXCEPT ![r] = "decrypt"]
          /\ UNCHANGED <<error, replies, calls>>
     ELSE LET signature == wire[r][1].header
              rawBody == JSONstringify(Body(r))
              verdict == validateSignature(rawBody, signature, options.appSecret[1])
          IN /\ calls' = [calls EXCEPT ![r] = Append(@, Call("validateSignature", "", <<>>))]
             /\ CASE verdict = "throws" ->
                       /\ error' = [error EXCEPT ![r] = "RangeError"]
                       /\ pc' = [pc EXCEPT ![r] = "catch"]
                       /\ UNCHANGED replies
                  [] verdict = "false" ->
                       /\ replies' = [replies EXCEPT ![r] =
                            Append(@, Response(401, "default", Lit("Invalid signature")))]
                       /\ pc' = [pc EXCEPT ![r] = "done"]
                       /\ UNCHANGED error
                  [] OTHER ->
                       /\ pc' = [pc EXCEPT ![r] = "decrypt"]
                       /\ UNCHANGED <<error, replies>>
  /\ UNCHANGED <<options, wire, dec, flowRequest, settled, bvars, pure>>

\* lines 60-69: if (options.appSecret) { ... validateSignature ... 401 }
CheckSignature(r) ==
  /\ pc[r] = "signature"
  /\ IF options.appSecret = <<>> \/ options.appSecret = <<"">>
     THEN /\ pc' = [pc EXCEPT ![r] = "decrypt"]
          /\ UNCHANGED <<error, replies, calls>>
     ELSE LET signature == wire[r][1].header
              rawBody == JSONstringify(Body(r))
              verdict == validateSignature(rawBody, signature, options.appSecret[1])
          IN /\ calls' = [calls EXCEPT ![r] = Append(@, Call("validateSignature", "", <<>>))]
             /\ CASE verdict = "throws" ->
                       /\ error' = [error EXCEPT ![r] = "RangeError"]
                       /\ pc' = [pc EXCEPT ![r] = "catch"]
                       /\ UNCHANGED replies
                  [] verdict = "false" ->
                       /\ replies' = [replies EXCEPT ![r] =
                            Append(@, Response(401, "default", Lit("Invalid signature")))]
                       /\ pc' = [pc EXCEPT ![r] = "done"]
                       /\ UNCHANGED error
                  [] OTHER ->
                       /\ pc' = [pc EXCEPT ![r] = "decrypt"]
                       /\ UNCHANGED <<error, replies>>
  /\ UNCHANGED <<options, wire, dec, flowRequest, settled, bvars, pure>>

\* the decryption step with a failure thrown on to the outer catch
Decrypt_Rethrow(r) ==
  /\ pc[r] = "decrypt"
  /\ LET res == decryptRequest(Body(r), options.privateKey)
     IN /\ calls' = [calls EXCEPT ![r] = Append(@, Call("decryptRequest", "", <<>>))]
        /\ IF res.ok
           THEN /\ dec' = [dec EXCEPT ![r] = <<res>>]
                /\ pc' = [pc EXCEPT ![r] = "classify"]
                /\ UNCHANGED error
           ELSE /\ error' = [error EXCEPT ![r] = "DecryptError"]
                /\ pc' = [pc EXCEPT ![r] = "catch"]
                /\ UNCHANGED dec
  /\ UNCHANGED <<options, wire, flowRequest, settled, replies, bvars, pure>>

\* lines 71-81: try { decryptRequest } catch { 421 }
Decrypt(r) ==
  /\ pc[r] = "decrypt"
  /\ LET res == decryptRequest(Body(r), options.privateKey)
     IN /\ calls' = [calls EXCEPT ![r] = Append(@, Call("decryptRequest", "", <<>>))]
        /\ IF res.ok
           THEN /\ dec' = [dec EXCEPT ![r] = <<res>>]
                /\ pc' = [pc EXCEPT ![r] = "classify"]
                /\ UNCHANGED replies
           ELSE /\ replies' = [replies EXCEPT ![r] =
                     Append(@, Response(421, "default", Lit("Decryption failed")))]
                /\ pc' = [pc EXCEPT ![r] = "done"]
                /\ UNCHANGED dec
  /\ UNCHANGED <<options, wire, flowRequest, settled, error, bvars, pure>>

\* flowRequest.data.error
HasErrorFlag(data) == "error" \in DOMAIN data /\ Truthy(data["error"])

\* classification with the error acknowledgement tested before the ping
Classification_AckFirst(d, opts) ==
  IF d.isNull THEN "throws-before-view"
  ELSE IF d.data # <<>> /\ HasErrorFlag(d.data[1]) /\ opts.acknowledgeErrors # <<FALSE>>
       THEN "ack"
  ELSE IF d.action = "ping" THEN "ping"
  ELSE IF d.data = <<>> THEN "throws-after-view"
  ELSE "handler"

\* classification that acknowledges whatever acknowledgeErrors is
Classification_AckAlways(d, opts) ==
  IF d.isNull THEN "throws-before-view"
  ELSE IF d.action = "ping" THEN "ping"
  ELSE IF d.data = <<>> THEN "throws-after-view"
  ELSE IF HasErrorFlag(d.data[1]) THEN "ack"
  ELSE "handler"

\* classification that acknowledges only when acknowledgeErrors === true
Classification_AckStrict(d, opts) ==
  IF d.isNull THEN "throws-before-view"
  ELSE IF d.action = "ping" THEN "ping"
  ELSE IF d.data = <<>> THEN "throws-after-view"
  ELSE IF HasErrorFlag(d.data[1]) /\ opts.acknowledgeErrors = <<TRUE>> THEN "ack"
  ELSE "handler"

\* lines 81-98: what the dispatcher does with decrypted data d.
\* decryptedData.action on null and flowRequest.data.error on a missing data
\* throw a TypeError, the first before flowRequest is assigned
Classification(d, opts) ==
  IF d.isNull THEN "throws-before-view"
  ELSE IF d.action = "ping" THEN "ping"
  ELSE IF d.data = <<>> THEN "throws-after-view"
  ELSE IF HasErrorFlag(d.data[1]) /\ opts.acknowledgeErrors # <<FALSE>> THEN "ack"
  ELSE "handler"

\* lines 81-101: ping, createFlowRequest, error acknowledgement, and the
\* call of options.onRequest(flowRequest)
Classify(r) ==
  /\ pc[r] = "classify"
  /\ LET d == dec[r][1].decryptedData[1]
         aesKey == dec[r][1].aesKey
         iv == dec[r][1].iv
         c == Classification(d, options)
         view == createFlowRequest(d)
         OK(payload) == Response(200, "text/plain", encryptResponse(payload, aesKey, iv))
     IN CASE c = "throws-before-view" ->
               /\ error' = [error EXCEPT ![r] = "TypeError"]
               /\ pc' = [pc EXCEPT ![r] = "catch"]
               /\ UNCHANGED <<flowRequest, replies, calls>>
          [] c = "ping" ->
               /\ replies' = [replies EXCEPT ![r] = Append(@, OK(HEALTH_CHECK_RESPONSE))]
               /\ pc' = [pc EXCEPT ![r] = "done"]
               /\ UNCHANGED <<flowRequest, error, calls>>
          [] c = "throws-after-view" ->
               /\ flowRequest' = [flowRequest EXCEPT ![r] = <<view>>]
               /\ error' = [error EXCEPT ![r] = "TypeError"]
               /\ pc' = [pc EXCEPT ![r] = "catch"]
               /\ UNCHANGED <<replies, calls>>
          [] c = "ack" ->
               /\ flowRequest' = [flowRequest EXCEPT ![r] = <<view>>]
               /\ replies' = [replies EXCEPT ![r] = Append(@, OK(ERROR_ACK_RESPONSE))]
               /\ pc' = [pc EXCEPT ![r] = "done"]
               /\ UNCHANGED <<error, calls>>
          [] OTHER ->
               /\ flowRequest' = [flowRequest EXCEPT ![r] = <<view>>]
               /\ calls' = [calls EXCEPT ![r] = Append(@, Call("onRequest", "", <<view>>))]
               /\ pc' = [pc EXCEPT ![r] = "awaiting"]
               /\ UNCHANGED <<error, replies>>
  /\ UNCHANGED <<options, wire, dec, settled, bvars, pure>>

\* lines 101-106: the awaited onRequest settles; build, encrypt, send
HandlerSettles(r) ==
  /\ pc[r] = "awaiting"
  /\ \E o \in HandlerOutcomes :
       /\ settled' = [settled EXCEPT ![r] = <<o>>]
       /\ CASE o.kind = "builder" ->
                 LET responseBuilder == RunScript(respond(flowRequest[r][1]), o.script)
                     responseData == Deref(responseBuilder, build(responseBuilder))
                     encryptedResponse ==
                       encryptResponse(responseData, dec[r][1].aesKey, dec[r][1].iv)
                 IN /\ replies' = [replies EXCEPT ![r] =
                          Append(@, Response(200, "text/plain", encryptedResponse))]
                    /\ pc' = [pc EXCEPT ![r] = "done"]
                    /\ UNCHANGED error
            [] o.kind = "nonbuilder" ->
                 \* responseBuilder.build is not a function
                 /\ error' = [error EXCEPT ![r] = "TypeError"]
                 /\ pc' = [pc EXCEPT ![r] = "catch"]
                 /\ UNCHANGED replies
            [] OTHER ->
                 /\ error' = [error EXCEPT ![r] = o.err]
                 /\ pc' = [pc EXCEPT ![r] = "catch"]
                 /\ UNCHANGED replies
  /\ UNCHANGED <<options, wire, dec, flowRequest, calls, bvars, pure>>

\* the error's own message sent as the body
ErrorBody_Leak(e) == Lit(e)

\* line 112: the body of the 500 response, whatever the error e
ErrorBody(e) == Lit("Internal server error")

\* the arguments of onError without the request view
OnErrorCall_NoView(e, view) == Call("onError", e, <<>>)

\* line 109: options.onError?.(error, flowRequest)
OnErrorCall(e, view) == Call("onError", e, view)

\* a catch that runs the request again from decryption
Catch_Retry(r) ==
  /\ pc[r] = "catch"
  /\ pc' = [pc EXCEPT ![r] = "decrypt"]
  /\ UNCHANGED <<options, wire, dec, flowRequest, settled, error, replies, calls,
                 bvars, pure>>

\* lines 107-113: the outer catch. onError, when supplied, is called first
\* and may itself throw: the handler's promise then rejects and the
\* dispatcher sends nothing
Catch(r) ==
  /\ pc[r] = "catch"
  /\ LET send500 ==
           /\ replies' = [replies EXCEPT ![r] =
                Append(@, Response(500, "default", ErrorBody(error[r])))]
           /\ pc' = [pc EXCEPT ![r] = "done"]
     IN IF options.onError
        THEN /\ calls' = [calls EXCEPT ![r] =
                  Append(@, OnErrorCall(error[r], flowRequest[r]))]
             /\ \/ send500
                \/ /\ pc' = [pc EXCEPT ![r] = "rejected"]
                   /\ UNCHANGED replies
        ELSE /\ send500
             /\ UNCHANGED calls
  /\ UNCHANGED <<options, wire, dec, flowRequest, settled, error, bvars, pure>>

Next ==
  \E r \in Reqs :
    \/ Receive(r)
    \/ CheckSignature(r)
    \/ Decrypt(r)
    \/ Classify(r)
    \/ HandlerSettles(r)
    \/ Catch(r)

Spec == Init /\ [][Next]_vars

(* ------------------ the response builder on its own ------------------- *)

BuilderInit ==
  /\ options = [privateKey |-> ServerKey, appSecret |-> <<>>, onError |-> FALSE,
                acknowledgeErrors |-> <<>>]
  /\ DispInit
  /\ \E s \in Sessions : bld = NewFlowResponseBuilder(s.flow_token)
  /\ BuilderIdle
  /\ PureIdle

\* bld.goToScreen(s, d), bld.close(p) or bld.withError(m)
CallBuilder ==
  /\ Len(ops) < MaxOps
  /\ \E o \in BuilderOps :
       /\ bld' = ApplyOp(bld, o)
       /\ ops' = Append(ops, o)
       /\ passed' = IF o.op = "goToScreen" /\ o.arg # <<>>
                    THEN Append(passed, [ref |-> bld'.heap[bld'.cur].data,
                                         was |-> DataObj(o.arg[1], <<>>)])
                    ELSE passed
  /\ UNCHANGED <<snaps, disp, pure>>

\* bld.build(), the caller keeping the reference returned
CallBuild ==
  /\ Len(ops) < MaxOps
  /\ snaps' = Append(snaps, build(bld))
  /\ ops' = Append(ops, OpBuild)
  /\ UNCHANGED <<bld, passed, disp, pure>>

BuilderNext == CallBuilder \/ CallBuild

BuilderSpec == BuilderInit /\ [][BuilderNext]_vars

(* ----------------------------- properties ----------------------------- *)

\* the POST handler of r has returned (done) or its promise has rejected
Finished(r) == pc[r] \in {"done", "rejected"}

CallsOf(r, fn) == {i \in DOMAIN calls[r] : calls[r][i].fn = fn}
Called(r, fn) == CallsOf(r, fn) # {}

Statuses(r) == [i \in DOMAIN replies[r] |-> replies[r][i].status]

SecretConfigured == options.appSecret \notin {<<>>, <<"">>}

\* the AES key and IV the platform used for the envelope of r
SenderKey(r) == FromB64(Body(r).encrypted_aes_key[1]).key
SenderIv(r) == FromB64(Body(r).initial_vector[1])

\* the header of r is 'sha256=' + hex HMAC of the body as the endpoint
\* serialises it, under the configured secret
SignatureMatches(r) ==
  wire[r][1].header =
    <<computeSignature(JSONstringify(Body(r)), options.appSecret[1])>>

\* r was decrypted to a request object
Decrypted(r) == dec[r] # <<>> /\ ~dec[r][1].decryptedData[1].isNull
Data(r) == dec[r][1].decryptedData[1]

\* the single reply of r is a 200 text/plain whose body decrypts, under the
\* sender's key and the flipped IV, to payload
RepliedWith(r, payload) ==
  /\ Len(replies[r]) = 1
  /\ replies[r][1].status = 200
  /\ replies[r][1].ctype = "text/plain"
  /\ "b64" \in DOMAIN replies[r][1].body
  /\ decryptResponse(replies[r][1].body, SenderKey(r), SenderIv(r)) = <<payload>>

\* C1: with an appSecret configured, a request whose signature header is
\* missing, empty, without the prefix or does not match (a digest of any
\* length) is answered 401, and neither decryptRequest nor onRequest is
\* called for it.
C1_SignatureFailureIs401 ==
  \A r \in Reqs :
    (Finished(r) /\ SecretConfigured /\ ~SignatureMatches(r)) =>
      /\ Statuses(r) = <<401>>
      /\ ~Called(r, "decryptRequest")
      /\ ~Called(r, "onRequest")

\* C2: a failing decryptRequest ends the request with the single status
\* 421, and neither onRequest nor onError is called.
C2_DecryptFailureIs421 ==
  \A r \in Reqs :
    (Called(r, "decryptRequest") /\ ~decryptRequest(Body(r), options.privateKey).ok) =>
      /\ pc[r] = "done"
      /\ Statuses(r) = <<421>>
      /\ ~Called(r, "onRequest")
      /\ ~Called(r, "onError")

C2_Witness ==
  \E r \in Reqs :
    /\ Called(r, "decryptRequest")
    /\ Body(r).encrypted_aes_key # <<>>
    /\ Body(r).encrypted_flow_data # <<>>
    /\ FromB64(Body(r).encrypted_flow_data[1]).body.p = NotJson
    /\ Statuses(r) = <<421>>

\* C3: a decrypted ping is answered 200 with the encrypted health payload
\* and onRequest is not called, whatever its data and acknowledgeErrors.
C3_PingIsHealthCheck ==
  \A r \in Reqs :
    (Decrypted(r) /\ Data(r).action = "ping" /\ pc[r] # "classify") =>
      /\ pc[r] = "done"
      /\ RepliedWith(r, HEALTH_CHECK_RESPONSE)
      /\ ~Called(r, "onRequest")

C3_Witness ==
  \E r \in Reqs :
    /\ Decrypted(r) /\ Data(r).action = "ping"
    /\ Data(r).data # <<>> /\ HasErrorFlag(Data(r).data[1])
    /\ options.acknowledgeErrors = <<>>
    /\ RepliedWith(r, HEALTH_CHECK_RESPONSE)

\* C4: a decrypted non-ping request whose data.error is set, with
\* acknowledgeErrors true or unset, is answered 200 with the encrypted
\* acknowledgement payload and onRequest is not called.
C4_ErrorFlagIsAcknowledged ==
  \A r \in Reqs :
    (/\ Decrypted(r) /\ Data(r).action # "ping" /\ pc[r] # "classify"
     /\ Data(r).data # <<>> /\ HasErrorFlag(Data(r).data[1])
     /\ options.acknowledgeErrors \in {<<>>, <<TRUE>>}) =>
      /\ pc[r] = "done"
      /\ RepliedWith(r, ERROR_ACK_RESPONSE)
      /\ ~Called(r, "onRequest")

C4_Witness ==
  \E r \in Reqs :
    /\ Decrypted(r) /\ Data(r).action = "data_exchange"
    /\ Data(r).data # <<>> /\ HasErrorFlag(Data(r).data[1])
    /\ options.acknowledgeErrors = <<>>
    /\ RepliedWith(r, ERROR_ACK_RESPONSE)

\* the payload of the builder the handler of r returned
BuiltPayload(r) ==
  LET b == RunScript(NewFlowResponseBuilder(Data(r).flow_token), settled[r][1].script)
  IN Deref(b, build(b))

\* C5: when the handler returned a builder, the reply is 200 text/plain, its
\* body is encryptResponse(builder.build(), aesKey, iv) for the key and IV of
\* the request's envelope, and decrypting it with that key and the flipped IV
\* yields the payload the handler built.
C5_HandlerReplyIsEncryptedPayload ==
  \A r \in Reqs :
    (settled[r] # <<>> /\ settled[r][1].kind = "builder") =>
      /\ pc[r] = "done"
      /\ RepliedWith(r, BuiltPayload(r))
      /\ replies[r][1].body = encryptResponse(BuiltPayload(r), SenderKey(r), SenderIv(r))

C5_Witness ==
  \E r \in Reqs :
    /\ settled[r] # <<>> /\ settled[r][1].kind = "builder"
    /\ settled[r][1].script = <<OpClose(<<[orderId |-> "X"]>>)>>
    /\ RepliedWith(r, BuiltPayload(r))

C7_ErrorBodyDependsOnStatusOnly ==
  \A r \in Reqs : \A i \in DOMAIN replies[r] :
    /\ replies[r][i].status = 500 => replies[r][i].body = Lit("Internal server error")
    /\ replies[r][i].status = 401 => replies[r][i].body = Lit("Invalid signature")
    /\ replies[r][i].status = 421 => replies[r][i].body = Lit("Decryption failed")

C7_Witness ==
  \E r \in Reqs :
    /\ error[r] = "Sensitive internal error details"
    /\ Statuses(r) = <<500>>
    /\ replies[r][1].body = Lit("Internal server error")

\* C8: every request whose handler has run to its end has got exactly one
\* reply, with status 200, 401, 421 or 500, and no request is replied to
\* twice, whatever onRequest and onError do.
C8_ExactlyOneReply ==
  \A r \in Reqs :
    /\ Len(replies[r]) <= 1
    /\ Finished(r) =>
         /\ Len(replies[r]) = 1
         /\ replies[r][1].status \in {200, 401, 421, 500}

\* the payload bld currently builds
Pending == Deref(bld, build(bld))

\* C9: after close(params) on a builder made for flow token T, the payload
\* has screen 'SUCCESS' and its completion params carry flow_token = T, also
\* when params has a flow_token key of its own.
C9_CloseEmbedsFlowToken ==
  (ops # <<>> /\ ops[Len(ops)].op = "close") =>
    /\ Pending.screen = "SUCCESS"
    /\ Pending.data.emr # <<>>
    /\ Pending.data.emr[1]["flow_token"] = bld.flowToken

\* C10: after any calls followed by goToScreen(s, d), build() returns
\* exactly {screen: s, data: d}, with {} for an omitted d: nothing of the
\* earlier calls survives.
C10_GoToScreenReplaces ==
  (ops # <<>> /\ ops[Len(ops)].op = "goToScreen") =>
    LET o == ops[Len(ops)]
    IN Pending = [screen |-> o.screen,
                  data |-> IF o.arg = <<>> THEN EmptyData
                           ELSE DataObj(o.arg[1], <<>>)]

C10_Witness ==
  /\ Len(ops) = 3
  /\ ops[1].op = "close" /\ ops[1].arg = <<[orderId |-> "X"]>>
  /\ ops[2].op = "withError"
  /\ ops[3] = OpGoToScreen("S1", <<>>)
  /\ Pending = [screen |-> "S1", data |-> EmptyData]

\* the call o replaces the pending payload
IsSet(o) == o.op \in {"goToScreen", "close"}

\* the last call made on bld
LastOp == ops[Len(ops)]

\* this step is a withError call made after some goToScreen or close
WithErrorStep ==
  /\ Len(ops') = Len(ops) + 1
  /\ ops'[Len(ops')].op = "withError"
  /\ \E i \in DOMAIN ops : IsSet(ops[i])

\* C11: withError(m) after goToScreen or close changes only
\* data.error_message: the screen and every other key of data (the
\* completion params included) are as before, data.error_message is m, and
\* the data objects the caller passed to goToScreen are not modified.
C11_WithErrorChangesOnlyErrorMessage ==
  [][WithErrorStep =>
       LET before == Pending
           after == Pending'
           m == ops'[Len(ops')].msg
       IN /\ after.screen = before.screen
          /\ after.data.emr = before.data.emr
          /\ DOMAIN after.data.flat = DOMAIN before.data.flat \cup {"error_message"}
          /\ \A k \in DOMAIN before.data.flat \ {"error_message"} :
               after.data.flat[k] = before.data.flat[k]
          /\ after.data.flat["error_message"] = m
          /\ \A i \in DOMAIN passed :
               /\ bld'.objs[passed[i].ref] = bld.objs[passed[i].ref]
               /\ bld'.objs[passed[i].ref] = passed[i].was]_vars

C11_Witness ==
  /\ Len(ops) = 2
  /\ ops[1] = OpGoToScreen("WELCOME", <<[greeting |-> "Hi"]>>)
  /\ ops[2] = OpWithError("bad")
  /\ Pending = [screen |-> "WELCOME",
                data |-> DataObj([greeting |-> "Hi", error_message |-> "bad"], <<>>)]
  /\ Len(passed) = 1
  /\ bld.objs[passed[1].ref] = DataObj([greeting |-> "Hi"], <<>>)

\* seq without its i-th element
RemoveAt(seq, i) == SubSeq(seq, 1, i - 1) \o SubSeq(seq, i + 1, Len(seq))

\* what build() returns after the calls of script on a new builder for the
\* flow token of bld
BuildOf(script) ==
  LET b == RunScript(NewFlowResponseBuilder(bld.flowToken), script)
  IN Deref(b, build(b))

\* C12: a withError call that no goToScreen/close precedes, or that a later
\* goToScreen/close follows, has no effect: build() returns what it returns
\* for the same calls without that withError.
C12_WithErrorNeedsPayload ==
  \A i \in DOMAIN ops :
    (/\ ops[i].op = "withError"
     /\ \/ \A j \in 1..(i - 1) : ~IsSet(ops[j])
        \/ \E j \in (i + 1)..Len(ops) : IsSet(ops[j])) =>
      Pending = BuildOf(RemoveAt(ops, i))

\* C13: build() is a pure read returning a snapshot: a build() call leaves
\* what build() returns unchanged, and a payload once returned by build() is
\* not changed by any later goToScreen, close or withError.
C13_BuildIsSnapshot ==
  [][/\ (Len(ops') = Len(ops) + 1 /\ ops'[Len(ops')].op = "build") =>
          Pending' = Pending
     /\ \A i \in DOMAIN snaps :
          Deref(bld', snaps[i]) = Deref(bld, snaps[i])]_vars

(* -------------------- validateSignature on its own -------------------- *)

\* the options of a specification that makes no request
IdleOptions ==
  [privateKey |-> ServerKey, appSecret |-> <<>>, onError |-> FALSE,
   acknowledgeErrors |-> <<>>]

SigPayloads == {"{}", "{a:1}", "{ a: 1 }"}
SigSecrets == {"s1", "s2"}

\* the header values built around the digest of payload p under secret s
SigHeadersOf(p, s) ==
  LET sig == computeSignature(p, s)
      upper == [i \in 1..HexLen |-> [sig.rest[i] EXCEPT !.up = TRUE]]
  IN {<<sig>>,
      <<Str("sha256=", upper)>>,
      <<Str("SHA256=", sig.rest)>>,
      <<Str("", sig.rest)>>,
      <<Str("sha256=", SubSeq(sig.rest, 1, HexLen - 1))>>,
      <<Str("sha256=", sig.rest \o <<sig.rest[1]>>)>>,
      <<Str("sha256=", <<>>)>>}

\* every header: undefined, the empty string and the ones above
SigHeaders ==
  {<<>>, <<Str("", <<>>)>>}
    \cup UNION {SigHeadersOf(p, s) : p \in SigPayloads, s \in SigSecrets}

SigInputs ==
  {[fn |-> "validateSignature", payload |-> p, signature |-> h, appSecret |-> s] :
     p \in SigPayloads, h \in SigHeaders, s \in SigSecrets}

SigInit ==
  /\ options = IdleOptions
  /\ DispInit
  /\ bld = NewFlowResponseBuilder("t1")
  /\ BuilderIdle
  /\ \E i \in SigInputs : input = <<i>>
  /\ output = <<>>

\* validateSignature(payload, signature, appSecret) returns or throws
CallValidateSignature ==
  /\ input # <<>> /\ input[1].fn = "validateSignature"
  /\ output = <<>>
  /\ output' = <<validateSignature(input[1].payload, input[1].signature,
                                   input[1].appSecret)>>
  /\ UNCHANGED <<input, disp, bvars>>

SigNext == CallValidateSignature

SigSpec == SigInit /\ [][SigNext]_vars

\* the header of the call is exactly 'sha256=' + lowercase hex HMAC of the
\* payload under the secret
HeaderIsExact ==
  input[1].signature = <<computeSignature(input[1].payload, input[1].appSecret)>>

\* C14: validateSignature returns true if and only if the header is exactly
\* 'sha256=' followed by the lowercase hex HMAC-SHA256 of the payload under
\* the secret; a digest in another letter case, under another secret or of
\* another payload is not accepted.
C14_TrueIffExactDigest ==
  output # <<>> => (output[1] = "true" <=> HeaderIsExact)

C14_Witness ==
  /\ output = <<"false">>
  /\ input[1].signature # <<>>
  /\ input[1].signature[1].prefix = "sha256="
  /\ Len(input[1].signature[1].rest) = HexLen
  /\ input[1].signature[1].rest # HmacHex(input[1].appSecret, input[1].payload)
  /\ [i \in 1..HexLen |-> [input[1].signature[1].rest[i] EXCEPT !.up = FALSE]]
       = HmacHex(input[1].appSecret, input[1].payload)

\* C15: validateSignature never throws: for a header that is missing,
\* empty, without the prefix, or the prefix followed by a digest of any
\* length, it returns a boolean, which is false unless the header matches.
C15_ValidateSignatureNeverThrows ==
  output # <<>> =>
    /\ output[1] \in {"true", "false"}
    /\ ~HeaderIsExact => output[1] = "false"

\* the signature check of r let the request through to decryption
SignaturePassed(r) == pc[r] = "decrypt" \/ Called(r, "decryptRequest")

\* C16: with an appSecret configured, a request passes the signature check
\* if and only if its header is the HMAC of the bytes actually received: a
\* header that is the correct HMAC of the received bytes is never rejected,
\* and bodies that differ in bytes are never accepted under one header.
C16_VerdictIsOfRawBytes ==
  \A r \in Reqs :
    (SecretConfigured /\ Called(r, "validateSignature")) =>
      (SignaturePassed(r) <=>
         wire[r][1].header =
           <<computeSignature(wire[r][1].raw, options.appSecret[1])>>)

(* --------------------- the envelope codec on its own ------------------ *)

CodecKeys == {s.aesKey : s \in Sessions}

\* request IVs: every one-byte IV and the IVs of the sessions
CodecIvs == {<<b>> : b \in Bytes} \cup {s.iv : s \in Sessions}

\* response payloads: the two fixed ones and what the handler scripts build
ResponsePayloads ==
  {HEALTH_CHECK_RESPONSE, ERROR_ACK_RESPONSE}
    \cup {LET b == RunScript(NewFlowResponseBuilder(s.flow_token), sc)
          IN Deref(b, build(b)) : sc \in HandlerScripts, s \in Sessions}

EncryptInputs ==
  {[fn |-> "encryptResponse", response |-> P, aesKey |-> k, iv |-> v] :
     P \in ResponsePayloads, k \in CodecKeys, v \in CodecIvs}

\* the requests the platform sends
Requests ==
  {DecryptedFlowRequest(a, sc, d, s.flow_token) :
     a \in Actions, sc \in {<<>>, <<"S1">>}, d \in RequestData, s \in Sessions}

KeyPairs == {ServerKey, OtherKey}

\* lengths of flow data shorter than the tag
ShortLengths == 0..(AUTH_TAG_LENGTH - 1)

\* what was done to the flow data of an envelope on its way
Faults ==
  {[kind |-> k, n |-> AUTH_TAG_LENGTH] :
     k \in {"none", "body", "tag", "nofield", "notjson"}}
    \cup {[kind |-> "short", n |-> n] : n \in ShortLengths}

\* the envelope env of a request under AES key a and IV v, with fault f:
\* the body or the tag replaced by those of another plaintext, or flow data
\* of f.n bytes only (no body, and the first f.n bytes of a tag), a field
\* of the envelope left out, or a plaintext that is no JSON
Tampered(env, f, a, v) ==
  LET data == FromB64(env.encrypted_flow_data[1])
      other == GcmEncrypt(a, v, JSONstringify(JsonNull))
      short == GcmEncrypt(a, v, EmptyText)
  IN CASE f.kind = "body" ->
            [env EXCEPT !.encrypted_flow_data = <<B64([data EXCEPT !.body = other.body])>>]
       [] f.kind = "tag" ->
            [env EXCEPT !.encrypted_flow_data = <<B64([data EXCEPT !.tag = other.tag])>>]
       [] f.kind = "short" ->
            [env EXCEPT !.encrypted_flow_data = <<B64([short EXCEPT !.tag.n = f.n])>>]
       [] f.kind = "nofield" ->
            [env EXCEPT !.encrypted_aes_key = <<>>]
       [] f.kind = "notjson" ->
            [env EXCEPT !.encrypted_flow_data = <<B64(GcmEncrypt(a, v, NotJson))>>]
       [] OTHER -> env

DecryptInputs ==
  {[fn |-> "decryptRequest", data |-> R, publicKey |-> pub, aesKey |-> s.aesKey,
    iv |-> s.iv, fault |-> f,
    encryptedRequest |-> Tampered(encryptRequest(R, pub, s.aesKey, s.iv), f, s.aesKey, s.iv),
    privateKeyPem |-> priv] :
     R \in Requests, pub \in KeyPairs, priv \in KeyPairs, s \in Sessions, f \in Faults}

CodecInit ==
  /\ options = IdleOptions
  /\ DispInit
  /\ bld = NewFlowResponseBuilder("t1")
  /\ BuilderIdle
  /\ \E i \in EncryptInputs \cup DecryptInputs : input = <<i>>
  /\ output = <<>>

\* encryptResponse(response, aesKey, iv) returns; input holds the caller's
\* buffers as the call leaves them
CallEncryptResponse ==
  /\ input # <<>> /\ input[1].fn = "encryptResponse"
  /\ output = <<>>
  /\ output' = <<encryptResponse(input[1].response, input[1].aesKey, input[1].iv)>>
  /\ input' = <<[input[1] EXCEPT !.iv = IvAfterFlip(@)]>>
  /\ UNCHANGED <<disp, bvars>>

\* decryptRequest(encryptedRequest, privateKeyPem) returns or throws
CallDecryptRequest ==
  /\ input # <<>> /\ input[1].fn = "decryptRequest"
  /\ output = <<>>
  /\ output' = <<decryptRequest(input[1].encryptedRequest, input[1].privateKeyPem)>>
  /\ UNCHANGED <<input, disp, bvars>>

CodecNext == CallEncryptResponse \/ CallDecryptRequest

CodecSpec == CodecInit /\ [][CodecNext]_vars

\* a call of fn has returned (or thrown)
Returned(fn) == input # <<>> /\ input[1].fn = fn /\ output # <<>>

\* C17: for every response payload P, key K and IV v, decrypting
\* encryptResponse(P, K, v) with the last 16 bytes as the tag, key K and
\* the flipped IV yields exactly P.
C17_ResponseRoundTrip ==
  Returned("encryptResponse") =>
    decryptResponse(output[1], input[1].aesKey, input[1].iv) = <<input[1].response>>

C17_Witness ==
  /\ Returned("encryptResponse")
  /\ "screen" \in DOMAIN input[1].response
  /\ input[1].response.screen = "SUCCESS"
  /\ input[1].iv = <<18, 52>>
  /\ decryptResponse(output[1], input[1].aesKey, input[1].iv) = <<input[1].response>>

\* the envelope of the call is the platform's, untouched, and the private
\* key is the one of the public key it was built for
Authentic ==
  /\ input[1].fault.kind = "none"
  /\ input[1].privateKeyPem = input[1].publicKey

\* C18: for every request R, key pair K, AES key a and IV v, decryptRequest
\* applied to the platform's envelope of R with K's private key returns
\* decryptedData equal to R, aesKey equal to a and iv equal to v.
C18_RequestRoundTrip ==
  (Returned("decryptRequest") /\ Authentic) =>
    output[1] = [ok |-> TRUE, decryptedData |-> <<input[1].data>>,
                 aesKey |-> input[1].aesKey, iv |-> input[1].iv, err |-> ""]

C18_Witness ==
  /\ Returned("decryptRequest") /\ Authentic
  /\ input[1].data.action = "data_exchange"
  /\ input[1].data.data = <<[error |-> "false"]>>
  /\ input[1].publicKey = OtherKey
  /\ output[1].ok
  /\ output[1].decryptedData = <<input[1].data>>

\* the IV the cipher of a returned encryptResponse ran under
UsedIv(encryptedResponse) == FromB64(encryptedResponse).body.v

\* C19: the IV used by encryptResponse is the request IV with every byte b
\* turned into 255 - b, of the same length; it differs from the request IV
\* in every position, flipping it again restores the request IV, and the
\* iv buffer passed in is left unmodified.
C19_FlippedIv ==
  [][(input # <<>> /\ input[1].fn = "encryptResponse" /\ output = <<>>
        /\ output' # <<>>) =>
       LET iv == input[1].iv
           used == UsedIv(output'[1])
       IN /\ Len(used) = Len(iv)
          /\ \A i \in 1..Len(iv) : used[i] = 255 - iv[i] /\ used[i] # iv[i]
          /\ FlipIv(used) = iv
          /\ input'[1].iv = iv]_vars

C19_Witness ==
  /\ Returned("encryptResponse")
  /\ input[1].iv = <<18, 52>>
  /\ UsedIv(output[1]) = <<237, 203>>

\* C20: decryptRequest returns a complete result or throws, never a partial
\* result; it throws whenever the ciphertext body or the 16-byte tag was
\* altered, whenever the private key does not match the key the AES key was
\* encrypted for, and whenever the ciphertext is shorter than the tag.
C20_DecryptIsAllOrNothing ==
  Returned("decryptRequest") =>
    /\ IF output[1].ok
       THEN /\ Len(output[1].decryptedData) = 1
            /\ output[1].aesKey \in CodecKeys
            /\ output[1].iv # <<>>
       ELSE output[1] \in {DecryptThrows(e) : e \in DecryptErrors}
    /\ ~Authentic => ~output[1].ok

C20_Witness ==
  /\ Returned("decryptRequest")
  /\ input[1].fault.kind = "tag"
  /\ input[1].privateKeyPem = input[1].publicKey
  /\ output[1] = DecryptThrows(ErrAuth)

\* the error decryptRequest raises for the envelope of the call opened with
\* a private key that is not the one it was built for
WrongKeyError ==
  LET other == CHOOSE k \in KeyPairs : k # input[1].publicKey
  IN decryptRequest(encryptRequest(input[1].data, input[1].publicKey,
                                   input[1].aesKey, input[1].iv), other).err

\* C21: decryptRequest surfaces one single generic failure: the error it
\* raises for a tag mismatch, for corrupted ciphertext, for a missing
\* envelope field and for bytes that are no JSON is the same as the one it
\* raises for a wrong private key.
C21_OneGenericFailure ==
  (Returned("decryptRequest") /\ ~output[1].ok) => output[1].err = WrongKeyError

(* ----------------------- concurrent requests -------------------------- *)

\* the bodies of the concurrent requests: one INIT and one data_exchange
\* per session, no signature header
ConcBodies ==
  {JSONstringify(encryptRequest(DecryptedFlowRequest(a, <<>>, <<EmptyMap>>, s.flow_token),
                                ServerKey, s.aesKey, s.iv)) :
     a \in {"INIT", "data_exchange"}, s \in Sessions}

ConcInit ==
  /\ options = [IdleOptions EXCEPT !.onError = TRUE]
  /\ DispInit
  /\ bld = NewFlowResponseBuilder("t1")
  /\ BuilderIdle
  /\ PureIdle

\* a POST arrives in slot r, whatever the other requests are doing
ConcReceive(r) ==
  /\ pc[r] = "idle"
  /\ \E raw \in ConcBodies : wire' = [wire EXCEPT ![r] = <<[header |-> <<>>, raw |-> raw]>>]
  /\ pc' = [pc EXCEPT ![r] = "signature"]
  /\ UNCHANGED <<options, dec, flowRequest, settled, error, replies, calls, bvars, pure>>

ConcNext ==
  \E r \in Reqs :
    \/ ConcReceive(r)
    \/ CheckSignature(r)
    \/ Decrypt(r)
    \/ Classify(r)
    \/ HandlerSettles(r)
    \/ Catch(r)

ConcSpec == ConcInit /\ [][ConcNext]_vars

\* the payload of the builder returned for r: the handler's calls on
\* respond() of the view of r's own decrypted request
OwnPayload(r) ==
  LET b == RunScript(respond(createFlowRequest(Data(r))), settled[r][1].script)
  IN Deref(b, build(b))

\* C22: for concurrent requests in any interleaving, each reply is
\* encrypted with the AES key and flipped IV of its own request and carries
\* the payload of the builder returned for its own request, the view given
\* to the handler is the one of its own request, and a completion carries
\* its own request's flow token.
C22_RequestsAreIsolated ==
  \A r \in Reqs :
    /\ dec[r] # <<>> => dec[r][1] = decryptRequest(Body(r), options.privateKey)
    /\ \A i \in CallsOf(r, "onRequest") :
         calls[r][i].view = <<createFlowRequest(Data(r))>>
    /\ (settled[r] # <<>> /\ settled[r][1].kind = "builder") =>
         /\ RepliedWith(r, OwnPayload(r))
         /\ OwnPayload(r).data.emr # <<>> =>
              OwnPayload(r).data.emr[1]["flow_token"] = Data(r).flow_token

\* the same without the clause on the completion's flow token
RepliesAreOwn ==
  \A r \in Reqs :
    /\ dec[r] # <<>> => dec[r][1] = decryptRequest(Body(r), options.privateKey)
    /\ \A i \in CallsOf(r, "onRequest") :
         calls[r][i].view = <<createFlowRequest(Data(r))>>
    /\ (settled[r] # <<>> /\ settled[r][1].kind = "builder") =>
         RepliedWith(r, OwnPayload(r))

\* C23: onError is invoked only for handler faults: an onError invocation
\* for a request is preceded by an invocation of onRequest for that request
\* that threw or rejected; a failure of the signature check, of decryption
\* or of classification never invokes onError.
C23_OnErrorOnlyForHandlerFaults ==
  \A r \in Reqs :
    Called(r, "onError") =>
      /\ Called(r, "onRequest")
      /\ settled[r] # <<>>
      /\ settled[r][1].kind = "throws"

\* the request views passed to onRequest for r
ViewsOf(r) == {calls[r][i].view[1] : i \in CallsOf(r, "onRequest")}

\* C24: every request view passed to onRequest has a screen if and only if
\* its action is data_exchange (INIT and BACK never carry one), and ping
\* never reaches the handler.
C24_ScreenIffDataExchange ==
  \A r \in Reqs : \A v \in ViewsOf(r) :
    /\ v.screen # <<>> <=> v.action = "data_exchange"
    /\ v.action # "ping"

\* the view v exposes the fields of the decrypted request d
ViewMirrors(v, d) ==
  /\ v.version = d.version
  /\ v.action = d.action
  /\ v.screen = d.screen
  /\ v.data = d.data
  /\ v.flowToken = d.flow_token

\* the completion close(params) builds on a builder b
Completion(b, params) ==
  LET c == close(b, params)
  IN Deref(c, build(c))

\* C25: the request view given to the handler exposes version, action,
\* screen, data and flowToken equal to the fields of the decrypted request,
\* and respond() on it returns a new builder bound to that request's flow
\* token, so that close on it embeds that token.
C25_ViewAndRespond ==
  \A r \in Reqs : \A v \in ViewsOf(r) :
    /\ ViewMirrors(v, Data(r))
    /\ respond(v) = NewFlowResponseBuilder(Data(r).flow_token)
    /\ \A p \in CloseArgs :
         Completion(respond(v), p).data.emr[1]["flow_token"] = Data(r).flow_token

\* the same for the params maps that have no flow_token key of their own
ViewAndRespondPlain ==
  \A r \in Reqs : \A v \in ViewsOf(r) :
    /\ ViewMirrors(v, Data(r))
    /\ respond(v) = NewFlowResponseBuilder(Data(r).flow_token)
    /\ \A p \in CloseArgs :
         (p = <<>> \/ "flow_token" \notin DOMAIN p[1]) =>
           Completion(respond(v), p).data.emr[1]["flow_token"] = Data(r).flow_token

\* the place of a call in the order of the stages
Stage(fn) ==
  CASE fn = "validateSignature" -> 1
    [] fn = "decryptRequest" -> 2
    [] fn = "onRequest" -> 3
    [] OTHER -> 4

\* the calls made for r so far follow the order of the stages, each made at
\* most once, and onRequest only after a passed signature check (when a
\* secret is configured) and a successful decryption
InStageOrder(r) ==
  /\ \A i, j \in DOMAIN calls[r] :
       i < j => Stage(calls[r][i].fn) < Stage(calls[r][j].fn)
  /\ Called(r, "onRequest") =>
       /\ SecretConfigured => (Called(r, "validateSignature") /\ SignatureMatches(r))
       /\ Called(r, "decryptRequest")
       /\ decryptRequest(Body(r), options.privateKey).ok
       /\ dec[r] # <<>>

\* C26: within one request the stages run in the order signature check,
\* decryption, classification, handler, reply, with no retry:
\* decryptRequest, onRequest and onError are each invoked at most once,
\* onRequest only after the signature check (when configured) and the
\* decryption have succeeded, and nothing is invoked for a request after its
\* reply has been sent.
C26_StagesInOrderNoRetry ==
  [][\A r \in Reqs :
       /\ InStageOrder(r)'
       /\ replies[r] # <<>> => calls'[r] = calls[r]]_vars

C26_Witness ==
  \E r \in Reqs :
    /\ pc[r] = "done"
    /\ Statuses(r) = <<500>>
    /\ [i \in DOMAIN calls[r] |-> calls[r][i].fn] =
         <<"validateSignature", "decryptRequest", "onRequest", "onError">>

\* r is a decrypted non-ping request carrying the error flag, classified
\* with acknowledgeErrors false
UnacknowledgedError(r) ==
  /\ Decrypted(r) /\ Data(r).action # "ping" /\ pc[r] # "classify"
  /\ Data(r).data # <<>> /\ HasErrorFlag(Data(r).data[1])
  /\ options.acknowledgeErrors = <<FALSE>>

\* C27: with acknowledgeErrors false, a non-ping request whose data carries
\* the error flag is not short-circuited: onRequest is invoked exactly once
\* with a view whose data contains the error flag, and the reply is built
\* from the handler's builder as for a request without the flag.
C27_ErrorFlagReachesHandler ==
  \A r \in Reqs :
    UnacknowledgedError(r) =>
      /\ Cardinality(CallsOf(r, "onRequest")) = 1
      /\ \A v \in ViewsOf(r) : v.data = Data(r).data /\ HasErrorFlag(v.data[1])
      /\ ~RepliedWith(r, ERROR_ACK_RESPONSE)
      /\ (settled[r] # <<>> /\ settled[r][1].kind = "builder") =>
           RepliedWith(r, BuiltPayload(r))

C27_Witness ==
  \E r \in Reqs :
    /\ UnacknowledgedError(r)
    /\ Data(r).action = "data_exchange"
    /\ settled[r] # <<>> /\ settled[r][1].kind = "builder"
    /\ settled[r][1].script = <<OpGoToScreen("S1", <<>>)>>
    /\ RepliedWith(r, BuiltPayload(r))

\* the plaintext of r authenticated and parsed, but is no request structure:
\* the JSON value null, or an object without a data map
NotARequest(r) ==
  /\ dec[r] # <<>>
  /\ \/ dec[r][1].decryptedData[1].isNull
     \/ dec[r][1].decryptedData[1].data = <<>>

\* C28: an envelope that decrypts and authenticates but whose plaintext is
\* not a request structure (null, or an object without a data map) is
\* treated as a decryption failure: the reply is 421 and onRequest is never
\* invoked.
C28_NonRequestPlaintextIs421 ==
  \A r \in Reqs :
    (NotARequest(r) /\ Finished(r)) =>
      /\ Statuses(r) = <<421>>
      /\ ~Called(r, "onRequest")

(* ------------- endpoint/next.ts and the three bindings ---------------- *)

\* the JSON body null: well-formed JSON that is no object
NullBody ==
  [encrypted_flow_data |-> <<>>, encrypted_aes_key |-> <<>>,
   initial_vector |-> <<>>, isNull |-> TRUE]

IsObject(body) == "isNull" \notin DOMAIN body

\* what a run of a handler amounts to: the responses sent and the calls made
Run(rs, cs) == [replies |-> rs, calls |-> cs]

\* next.ts, catch (error): onError if supplied, then 500; when onError
\* throws the handler's promise rejects and nothing is returned
NextCatch(opts, cs, e, view, onErrorThrows) ==
  IF opts.onError
  THEN Run(IF onErrorThrows THEN <<>>
           ELSE <<Response(500, "default", Lit("Internal server error"))>>,
           Append(cs, Call("onError", e, view)))
  ELSE Run(<<Response(500, "default", Lit("Internal server error"))>>, cs)

\* next.ts from the decrypted request on: ping, view, acknowledgement,
\* handler, encryption; o is how onRequest settles
NextDispatch(opts, res, cs, o, onErrorThrows) ==
  LET d == res.decryptedData[1]
      c == Classification(d, opts)
      view == createFlowRequest(d)
      OK(payload) == Response(200, "text/plain", encryptResponse(payload, res.aesKey, res.iv))
      cs2 == Append(cs, Call("onRequest", "", <<view>>))
  IN CASE c = "throws-before-view" -> NextCatch(opts, cs, "TypeError", <<>>, onErrorThrows)
       [] c = "ping" -> Run(<<OK(HEALTH_CHECK_RESPONSE)>>, cs)
       [] c = "throws-after-view" -> NextCatch(opts, cs, "TypeError", <<view>>, onErrorThrows)
       [] c = "ack" -> Run(<<OK(ERROR_ACK_RESPONSE)>>, cs)
       [] OTHER ->
            CASE o.kind = "builder" ->
                   LET responseBuilder == RunScript(respond(view), o.script)
                       responseData == Deref(responseBuilder, build(responseBuilder))
                   IN Run(<<OK(responseData)>>, cs2)
              [] o.kind = "nonbuilder" ->
                   NextCatch(opts, cs2, "TypeError", <<view>>, onErrorThrows)
              [] OTHER -> NextCatch(opts, cs2, o.err, <<view>>, onErrorThrows)

\* next.ts from the decryption on
NextDecrypt(opts, body, cs, o, onErrorThrows) ==
  LET res == decryptRequest(body, opts.privateKey)
      cs1 == Append(cs, Call("decryptRequest", "", <<>>))
  IN IF ~res.ok
     THEN Run(<<Response(421, "default", Lit("Decryption failed"))>>, cs1)
     ELSE NextDispatch(opts, res, cs1, o, onErrorThrows)

\* createFlowEndpointHandlers(options).POST(request): body is the value of
\* request.json(), signature the x-hub-signature-256 header
POST(opts, body, signature, o, onErrorThrows) ==
  IF opts.appSecret = <<>> \/ opts.appSecret = <<"">>
  THEN NextDecrypt(opts, body, <<>>, o, onErrorThrows)
  ELSE IF signature = <<>> \/ signature[1] = Str("", <<>>)
  THEN Run(<<Response(401, "default", Lit("Invalid signature"))>>, <<>>)
  ELSE
    LET verdict == validateSignature(JSONstringify(body), signature, opts.appSecret[1])
        cs == <<Call("validateSignature", "", <<>>)>>
    IN CASE verdict = "throws" -> NextCatch(opts, cs, "RangeError", <<>>, onErrorThrows)
         [] verdict = "false" ->
              Run(<<Response(401, "default", Lit("Invalid signature"))>>, cs)
         [] OTHER -> NextDecrypt(opts, body, cs, o, onErrorThrows)

\* createFlowEndpointPagesHandler(options)(req, res): the same steps on
\* req.body after the 405 for other methods
PagesHandler(opts, method, body, signature, o, onErrorThrows) ==
  IF method # "POST"
  THEN Run(<<Response(405, "default", Lit("Method not allowed"))>>, <<>>)
  ELSE POST(opts, body, signature, o, onErrorThrows)

\* the bodies posted to the three bindings: the envelopes and the body null
BindBodies == RawBodies \cup {JSONstringify(NullBody)}

BindInit ==
  /\ options \in Options
  /\ DispInit
  /\ bld = NewFlowResponseBuilder("t1")
  /\ BuilderIdle
  /\ PureIdle

\* a POST arrives at the Express router
BindReceive ==
  /\ pc[1] = "idle"
  /\ \E raw \in BindBodies : \E h \in Headers(raw) :
       wire' = [wire EXCEPT ![1] = <<[header |-> h, raw |-> raw]>>]
  /\ pc' = [pc EXCEPT ![1] = "parsing"]
  /\ UNCHANGED <<options, dec, flowRequest, settled, error, replies, calls, bvars, pure>>

\* line 52, router.use(express.json()): the strict parser takes objects and
\* arrays only and answers 400 to any other JSON text; the POST handler
\* runs on the parsed object
ExpressJson ==
  /\ pc[1] = "parsing"
  /\ IF IsObject(Body(1))
     THEN /\ pc' = [pc EXCEPT ![1] = "signature"]
          /\ UNCHANGED replies
     ELSE /\ replies' = [replies EXCEPT ![1] =
               Append(@, Response(400, "default", Lit("Bad Request")))]
          /\ pc' = [pc EXCEPT ![1] = "done"]
  /\ UNCHANGED <<options, wire, dec, flowRequest, settled, error, calls, bvars, pure>>

\* the same request given to the two Next.js handlers, with onRequest and
\* onError behaving as they did for the router
CallNextHandlers ==
  /\ Finished(1)
  /\ output = <<>>
  /\ LET o == IF settled[1] = <<>> THEN CHOOSE x \in HandlerOutcomes : TRUE
              ELSE settled[1][1]
         body == Body(1)
         signature == wire[1][1].header
         onErrorThrows == pc[1] = "rejected"
     IN output' = <<[app |-> POST(options, body, signature, o, onErrorThrows),
                     pages |-> PagesHandler(options, "POST", body, signature, o,
                                            onErrorThrows)]>>
  /\ UNCHANGED <<input, disp, bvars>>

BindNext ==
  \/ BindReceive
  \/ ExpressJson
  \/ CheckSignature(1)
  \/ Decrypt(1)
  \/ Classify(1)
  \/ HandlerSettles(1)
  \/ Catch(1)
  \/ CallNextHandlers

BindSpec == BindInit /\ [][BindNext]_vars

\* what the claim compares: status codes, response bodies and the calls of
\* onRequest and onError with their arguments
Observed(run) ==
  [statuses |-> [i \in DOMAIN run.replies |-> run.replies[i].status],
   bodies |-> [i \in DOMAIN run.replies |-> run.replies[i].body],
   calls |-> SelectSeq(run.calls, LAMBDA c : c.fn \in {"onRequest", "onError"})]

\* C29: the Express router, the App Router POST handler and the Pages
\* handler are equivalent on POST requests with a well-formed JSON body:
\* same status code, same response body, same onRequest / onError calls.
C29_BindingsAgree ==
  output # <<>> =>
    /\ Observed(output[1].app) = Observed(Run(replies[1], calls[1]))
    /\ Observed(output[1].pages) = Observed(Run(replies[1], calls[1]))

\* the same for the bodies that are JSON objects
BindingsAgreeOnObjects ==
  (output # <<>> /\ IsObject(Body(1))) =>
    /\ Observed(output[1].app) = Observed(Run(replies[1], calls[1]))
    /\ Observed(output[1].pages) = Observed(Run(replies[1], calls[1]))

\* the calls a run made, by name
Fns(cs) == [i \in DOMAIN cs |-> cs[i].fn]

\* the runs of the App Router handler on the request of r, for every way
\* onRequest may settle
NextRuns(r) ==
  {POST(options, Body(r), wire[r][1].header, o, FALSE) : o \in HandlerOutcomes}

\* C30: signature validation runs exactly when options.appSecret is a
\* non-empty string: with appSecret undefined or empty, validateSignature
\* is never called and a request with any signature header, or none,
\* proceeds straight to decryption and is never answered 401.
C30_NoSecretNoSignatureCheck ==
  \A r \in Reqs :
    pc[r] \notin {"idle", "signature"} =>
      IF SecretConfigured
      THEN /\ Fns(calls[r])[1] = "validateSignature"
           /\ \A run \in NextRuns(r) :
                \/ Fns(run.calls) # <<>> /\ Fns(run.calls)[1] = "validateSignature"
                \/ [i \in DOMAIN run.replies |-> run.replies[i].status] = <<401>>
      ELSE /\ ~Called(r, "validateSignature")
           /\ Fns(calls[r]) # <<>> => Fns(calls[r])[1] = "decryptRequest"
           /\ pc[r] # "decrypt" => Called(r, "decryptRequest")
           /\ \A i \in DOMAIN replies[r] : replies[r][i].status # 401
           /\ \A run \in NextRuns(r) :
                /\ Fns(run.calls)[1] = "decryptRequest"
                /\ \A i \in DOMAIN run.replies : run.replies[i].status # 401

C30_Witness ==
  \E r \in Reqs :
    /\ options.appSecret = <<"">>
    /\ wire[r] # <<>> /\ wire[r][1].header # <<>>
    /\ wire[r][1].header[1].prefix = "sha256="
    /\ Called(r, "decryptRequest")
    /\ Statuses(r) = <<200>>

====
